---------------------------- MODULE Spec2Model ----------------------------
(***************************************************************************)
(* A model of grader/grade.py: the reference macro-F1 engine, the label    *)
(* normaliser, the candidate oracle run_case with its mutation guard, the  *)
(* start-up checks of the candidate module and the battery run by main.    *)
(*                                                                         *)
(* Labels are Python objects.  A label is a record [t, v]: t is the        *)
(* Python type of the object and v identifies its value within the type    *)
(* (for a float NaN, v is the identity of the object, since NaN objects    *)
(* are told apart by identity only).                                       *)
(*                                                                         *)
(* Floating-point results are modelled by exact rationals [n, d]; a value  *)
(* returned by the candidate is a rational plus an offset e counted in     *)
(* units of 1e-12, which is enough to place it on either side of the two   *)
(* tolerances of run_case (1e-12 and 1e-9).                                *)
(***************************************************************************)
EXTENDS Integers, Sequences, FiniteSets, TLC

\* ------------------------------------------------------------------------
\* Bounds of the model
\* ------------------------------------------------------------------------

\* Longest truth / predicted sequence given to the reference engine in RefSpec.
MaxLen == 2

\* ------------------------------------------------------------------------
\* Labels and Python's equality on them
\* ------------------------------------------------------------------------

Lbl(t, v) == [t |-> t, v |-> v]

\* int, bool and numpy.int64 compare by numeric value across types.
IsNumericType(t) == t \in {"int", "bool", "int64"}

\* isinstance(x, float): the label type "nan" is a NaN of Python's float
\* or of its subclass numpy.float64; "nan32" is a NaN of numpy.float32,
\* which does not derive from float.
IsFloat(x) == x.t = "nan"

\* math.isnan(x)
IsNanValued(x) == x.t \in {"nan", "nan32"}

\* x == y as Python evaluates it on labels: a NaN equals nothing, not even
\* itself; numbers compare by value whatever their type (True == 1);
\* everything else compares by type and value (object() by identity).
PyEq(x, y) ==
    IF IsNanValued(x) \/ IsNanValued(y) THEN FALSE
    ELSE IF IsNumericType(x.t) /\ IsNumericType(y.t) THEN x.v = y.v
    ELSE x.t = y.t /\ x.v = y.v

\* x is y.
PyIs(x, y) == x = y

\* The comparison of list.__eq__ and of set membership: identity, then ==.
PyIdOrEq(x, y) == PyIs(x, y) \/ PyEq(x, y)

\* list == list.
ListEq(a, b) ==
    /\ Len(a) = Len(b)
    /\ \A i \in 1..Len(a) : PyIdOrEq(a[i], b[i])

\* ------------------------------------------------------------------------
\* Exact rationals standing for the floats of the reference engine
\* ------------------------------------------------------------------------

Abs(i) == IF i < 0 THEN -i ELSE i

RECURSIVE Gcd(_, _)
Gcd(a, b) == IF b = 0 THEN a ELSE Gcd(b, a % b)

\* The result of a division by zero (ZeroDivisionError).
DivZero == [n |-> 0, d |-> 0]

Rat(n, d) ==
    IF d = 0 THEN DivZero
    ELSE LET g == Gcd(Abs(n), Abs(d))
             s == IF d < 0 THEN -1 ELSE 1
         IN  [n |-> (s * n) \div g, d |-> (s * d) \div g]

RatZero == Rat(0, 1)
RatOne == Rat(1, 1)
RatAdd(a, b) == IF a.d = 0 \/ b.d = 0 THEN DivZero ELSE Rat(a.n * b.d + b.n * a.d, a.d * b.d)
RatMul(a, b) == IF a.d = 0 \/ b.d = 0 THEN DivZero ELSE Rat(a.n * b.n, a.d * b.d)
RatDiv(a, b) == IF a.d = 0 \/ b.d = 0 THEN DivZero ELSE Rat(a.n * b.d, a.d * b.n)
RatLeq(a, b) == a.n * b.d <= b.n * a.d
RatIsZero(a) == a.d # 0 /\ a.n = 0

\* ------------------------------------------------------------------------
\* Reference implementation
\* ------------------------------------------------------------------------

\* _SENTINEL_NAN = object()
_SENTINEL_NAN == Lbl("object", 0)

_is_nan(x) == IsFloat(x) /\ IsNanValued(x)

_normalize_label(x) == IF _is_nan(x) THEN _SENTINEL_NAN ELSE x

\* An iterable handed to the grader: a list, a numpy array or a generator,
\* with the items it holds or yields.
Iterable(kind, items) == [kind |-> kind, items |-> items]

\* list(a): the elements in order; iterating a numpy integer array yields
\* numpy.int64 scalars.
_materialize(a) ==
    IF a.kind = "ndarray"
    THEN [i \in 1..Len(a.items) |-> Lbl("int64", a.items[i].v)]
    ELSE a.items

NormalizeAll(s) == [i \in 1..Len(s) |-> _normalize_label(s[i])]

\* set(yt) | set(yp): one member per group of equal labels, the one met
\* first (the elements of yt are inserted before those of yp, and an
\* element equal to a member is not inserted).
SetUnion(yt, yp) ==
    LET s == yt \o yp
        IsFirst(i) == \A j \in 1..(i - 1) : ~PyIdOrEq(s[j], s[i])
        firsts == SelectSeq([i \in 1..Len(s) |-> i], IsFirst)
    IN  [k \in 1..Len(firsts) |-> s[firsts[k]]]

\* str(type(x)) in string order.
TypeRank(t) ==
    CASE t = "bool" -> 1
      [] t = "nan" -> 2
      [] t = "frozenset" -> 3
      [] t = "int" -> 4
      [] t = "nan32" -> 5
      [] t = "int64" -> 6
      [] t = "object" -> 7
      [] t = "str" -> 8
      [] t = "tuple" -> 9

\* key=lambda x: (str(type(x)), str(x)); within a type the codes v are
\* numbered in the order of str(x), and every NaN prints as 'nan'.
KeyLess(x, y) ==
    \/ TypeRank(x.t) < TypeRank(y.t)
    \/ /\ x.t = y.t
       /\ ~IsNanValued(x)
       /\ x.v < y.v

RECURSIVE InsertSorted(_, _)
InsertSorted(x, s) ==
    IF s = <<>> THEN <<x>>
    ELSE IF KeyLess(x, Head(s)) THEN <<x>> \o s
    ELSE <<Head(s)>> \o InsertSorted(x, Tail(s))

\* sorted(...): stable.
RECURSIVE Sorted(_)
Sorted(s) == IF s = <<>> THEN <<>> ELSE InsertSorted(s[Len(s)], Sorted(SubSeq(s, 1, Len(s) - 1)))

Classes(yt, yp) == Sorted(SetUnion(yt, yp))

Min(a, b) == IF a < b THEN a ELSE b

\* zip(yt, yp) stops at the shorter list.
ZipIdx(yt, yp) == 1..Min(Len(yt), Len(yp))

Tp(yt, yp, c) == Cardinality({i \in ZipIdx(yt, yp) : PyEq(yt[i], c) /\ PyEq(yp[i], c)})
Fp(yt, yp, c) == Cardinality({i \in ZipIdx(yt, yp) : ~PyEq(yt[i], c) /\ PyEq(yp[i], c)})
Fn(yt, yp, c) == Cardinality({i \in ZipIdx(yt, yp) : PyEq(yt[i], c) /\ ~PyEq(yp[i], c)})

\* prec without the guard against tp + fp == 0.
PrecisionUnguarded(tp, fp) == Rat(tp, tp + fp)

Precision(tp, fp) == IF tp + fp = 0 THEN RatZero ELSE Rat(tp, tp + fp)

Recall(tp, fn) == IF tp + fn = 0 THEN RatZero ELSE Rat(tp, tp + fn)

F1Of(prec, rec) ==
    IF RatIsZero(RatAdd(prec, rec)) THEN RatZero
    ELSE RatDiv(RatMul(Rat(2, 1), RatMul(prec, rec)), RatAdd(prec, rec))

ClassF1(yt, yp, c) ==
    F1Of(Precision(Tp(yt, yp, c), Fp(yt, yp, c)), Recall(Tp(yt, yp, c), Fn(yt, yp, c)))

RECURSIVE RatSum(_)
RatSum(s) == IF s = <<>> THEN RatZero ELSE RatAdd(Head(s), RatSum(Tail(s)))

\* 0.0 if not f1s else float(sum(f1s) / len(f1s))
MeanF1(f1s) == IF f1s = <<>> THEN RatZero ELSE RatDiv(RatSum(f1s), Rat(Len(f1s), 1))

\* _macro_f1_ref without its length check.
LengthMismatchNever(yt, yp) == FALSE

LengthMismatch(yt, yp) == Len(yt) # Len(yp)

\* _macro_f1_ref as a function of its arguments: a ValueError, or the
\* value returned.
_macro_f1_ref(a, b) ==
    LET yt0 == _materialize(a)
        yp0 == _materialize(b)
    IN  IF LengthMismatch(yt0, yp0)
        THEN [raised |-> "ValueError", value |-> RatZero]
        ELSE LET yt == NormalizeAll(yt0)
                 yp == NormalizeAll(yp0)
                 cs == Classes(yt, yp)
                 fs == [k \in 1..Len(cs) |-> ClassF1(yt, yp, cs[k])]
             IN  [raised |-> "none", value |-> MeanF1(fs)]

\* ------------------------------------------------------------------------
\* Values returned by the candidate, and the floats of run_case
\* ------------------------------------------------------------------------

\* 1e-12 and 1e-9 in units of 1e-12.
EpsPico == 1
TolPico == 1000

\* A Python value returned by the candidate (or held in out / ref / expect).
\* For kind "float" and "int" the value is n/d + e * 1e-12.  The bases n/d
\* are ratios of small integers, so two different bases are further apart
\* than any offset used here: an order or a distance between two values
\* is decided by the bases, and by the offsets when the bases are equal.
Val(kind, r, e) == [kind |-> kind, n |-> r.n, d |-> r.d, e |-> e]
FloatOf(r) == Val("float", r, 0)
NoneVal == Val("NoneType", RatZero, 0)

Base(x) == [n |-> x.n, d |-> x.d]

\* isinstance(out, (float, int))
IsFloatOrInt(x) == x.kind \in {"float", "int", "inf", "nan", "hugeint"}

\* float(out) raises OverflowError for an int too large for a double.
FloatOverflows(x) == x.kind = "hugeint"

\* float(out)
ToFloat(x) == IF x.kind = "int" THEN [x EXCEPT !.kind = "float"] ELSE x

\* math.isfinite
IsFinite(x) == x.kind = "float"

\* a <= b on floats; any comparison with NaN is False.
FloatLeq(a, b) ==
    CASE a.kind = "nan" \/ b.kind = "nan" -> FALSE
      [] a.kind = "inf" -> b.kind = "inf"
      [] b.kind = "inf" -> TRUE
      [] OTHER -> IF Base(a) = Base(b) THEN a.e <= b.e ELSE RatLeq(Base(a), Base(b))

\* abs(a - b) <= tol for finite a, b, tol in units of 1e-12.
WithinTol(a, b, tol) == Base(a) = Base(b) /\ Abs(a.e - b.e) <= tol

\* 0.0 - 1e-12 <= out <= 1.0 + 1e-12
InRange(out) ==
    /\ FloatLeq(Val("float", RatZero, -EpsPico), out)
    /\ FloatLeq(out, Val("float", RatOne, EpsPico))

_approx_equal(a, b) ==
    IF IsFinite(a) /\ IsFinite(b) THEN WithinTol(a, b, TolPico) ELSE FALSE

\* list(x_list): a new list holding the same objects.
_frozen_copy_list(x_list) == [i \in 1..Len(x_list) |-> x_list[i]]

\* ------------------------------------------------------------------------
\* Exceptions
\* ------------------------------------------------------------------------

\* The exception classes a candidate raises here, all derived from
\* Exception, and the base class of each.
ExcClasses == {"ValueError", "UnicodeError", "TypeError"}

ExcBase(c) ==
    CASE c = "UnicodeError" -> "ValueError"
      [] c = "ValueError" -> "Exception"
      [] c = "TypeError" -> "Exception"
      [] OTHER -> "object"

\* A handler that accepts any exception as the expected one.
IsInstanceAny(e, cls) == TRUE

\* isinstance(e, cls)
IsInstance(e, cls) ==
    \/ e = cls
    \/ ExcBase(e) = cls
    \/ ExcBase(ExcBase(e)) = cls

\* ------------------------------------------------------------------------
\* The candidate: what one call macro_f1(yt, yp) may do
\* ------------------------------------------------------------------------

NoMutation == [op |-> "none", target |-> "none", pos |-> 0, label |-> Lbl("str", 0)]

\* The list after the candidate's in-place change, if it is the target.
ApplyMutation(m, target, lst) ==
    IF m.target # target THEN lst
    ELSE CASE m.op = "set" -> [lst EXCEPT ![m.pos] = m.label]
           [] m.op = "append" -> Append(lst, m.label)
           [] m.op = "pop" -> SubSeq(lst, 1, Len(lst) - 1)
           [] OTHER -> lst

\* An object equal to x under == that is not x, where Python has one
\* (True for 1, a numpy scalar for an int); for a NaN, another NaN object.
Twin(x) ==
    CASE x.t = "nan" -> Lbl("nan", x.v + 1)
      [] x.t = "int" /\ x.v \in {0, 1} -> Lbl("bool", x.v)
      [] x.t = "int" -> Lbl("int64", x.v)
      [] x.t = "int64" -> Lbl("int", x.v)
      [] x.t = "bool" -> Lbl("int", x.v)
      [] OTHER -> x

\* The string "", which occurs in no case of the battery.
FreshLabel == Lbl("str", 0)

\* In-place changes of one of the two lists: the first element overwritten
\* (with a new label, or with an equal object of another type), the last
\* element overwritten with the first, an element appended, the last
\* element removed.
MutationsOf(target, lst) ==
    IF Len(lst) = 0
    THEN {[op |-> "append", target |-> target, pos |-> 0, label |-> FreshLabel]}
    ELSE {[op |-> "set", target |-> target, pos |-> 1, label |-> FreshLabel],
          [op |-> "set", target |-> target, pos |-> 1, label |-> Twin(lst[1])],
          [op |-> "set", target |-> target, pos |-> Len(lst), label |-> lst[1]],
          [op |-> "append", target |-> target, pos |-> 0, label |-> FreshLabel],
          [op |-> "pop", target |-> target, pos |-> 0, label |-> FreshLabel]}

Mutations(yt, yp) == {NoMutation} \cup MutationsOf("y_true", yt) \cup MutationsOf("y_pred", yp)

\* The values a call may return: the macro-F1 of the lists as passed, and
\* that value off by the tolerance and by just more; the macro-F1 of the
\* lists as left behind; 0 and 1 and the values just outside them and
\* just outside the widened range; 1/2; and the values that are no finite
\* float.
ReturnValues(yt0, yp0, yt, yp) ==
    LET pre == _macro_f1_ref(Iterable("list", yt0), Iterable("list", yp0))
        post == _macro_f1_ref(Iterable("list", yt), Iterable("list", yp))
    IN  (IF pre.raised = "none"
         THEN {Val("float", pre.value, e) :
                  e \in {0, TolPico, -TolPico, TolPico + 1, -(TolPico + 1)}}
         ELSE {})
        \cup (IF post.raised = "none" THEN {FloatOf(post.value)} ELSE {})
        \cup {Val("float", RatZero, e) : e \in {0, -EpsPico, -2 * EpsPico}}
        \cup {Val("float", RatOne, e) : e \in {0, EpsPico, 2 * EpsPico}}
        \cup {FloatOf(Rat(1, 2))}
        \cup {Val("int", RatZero, 0), Val("int", RatOne, 0)}
        \cup {Val("inf", RatZero, 0), Val("nan", RatZero, 0),
              Val("hugeint", RatZero, 0), NoneVal}

\* One behaviour of the candidate on the lists (yt, yp): the in-place
\* change it makes, then the exception it raises or the value it returns.
Behaviours(yt, yp) ==
    {[mut |-> m, exc |-> x, out |-> NoneVal] : m \in Mutations(yt, yp), x \in ExcClasses}
    \cup UNION {{[mut |-> m, exc |-> "none", out |-> v] :
                    v \in ReturnValues(yt, yp, ApplyMutation(m, "y_true", yt),
                                       ApplyMutation(m, "y_pred", yp))} :
                m \in Mutations(yt, yp)}

\* ------------------------------------------------------------------------
\* Single test runner
\* ------------------------------------------------------------------------

Outcome(c, yt0, yp0, yt, yp, beh, verdict, msg, refCalled, guardRan) ==
    [name |-> c.name, expect |-> c.expect, expect_exception |-> c.expect_exception,
     yt0 |-> yt0, yp0 |-> yp0, yt |-> yt, yp |-> yp,
     exc |-> beh.exc, out |-> beh.out,
     verdict |-> verdict, msg |-> msg,
     refCalled |-> refCalled, guardRan |-> guardRan, candidateCalls |-> 1]

\* run_case without its mutation checks.
ListNeNever(a, b) == FALSE

\* yt != yt0
ListNe(a, b) == ~ListEq(a, b)

\* run_case on case c when the candidate behaves as beh.  verdict is what
\* run_case returns ("True" / "False"), or "raised" when an exception
\* leaves run_case; msg is the line printed, or the exception.
run_case(c, beh) ==
    LET yt1 == _materialize(c.y_true)
        yp1 == _materialize(c.y_pred)
        yt0 == _frozen_copy_list(yt1)
        yp0 == _frozen_copy_list(yp1)
        \* the lists after the call macro_f1(yt, yp)
        yt == ApplyMutation(beh.mut, "y_true", yt1)
        yp == ApplyMutation(beh.mut, "y_pred", yp1)
        R(verdict, msg, refCalled, guardRan) ==
            Outcome(c, yt0, yp0, yt, yp, beh, verdict, msg, refCalled, guardRan)
    IN  IF beh.exc # "none"
        THEN \* lines 147-152
             IF c.expect_exception # "None" /\ IsInstance(beh.exc, c.expect_exception)
             THEN R("True", "PASS: raised expected", FALSE, FALSE)
             ELSE R("False", "FAIL: unexpected exception", FALSE, FALSE)
        ELSE IF c.expect_exception # "None"
        THEN \* lines 144-146
             R("False", "FAIL: expected exception, but none was raised", FALSE, FALSE)
        ELSE IF ~IsFloatOrInt(beh.out)
        THEN R("False", "FAIL: output must be a float", FALSE, FALSE)
        ELSE IF FloatOverflows(beh.out)
        THEN R("raised", "OverflowError", FALSE, FALSE)
        ELSE IF ~InRange(ToFloat(beh.out))
        THEN R("False", "FAIL: output not in [0, 1]", FALSE, FALSE)
        ELSE LET out == ToFloat(beh.out)
                 refres == IF c.expect.kind = "NoneType"
                           THEN _macro_f1_ref(Iterable("list", yt), Iterable("list", yp))
                           ELSE [raised |-> "none", value |-> Base(c.expect)]
                 refCalled == c.expect.kind = "NoneType"
             IN  IF refres.raised # "none"
                 THEN R("raised", refres.raised, refCalled, FALSE)
                 ELSE IF ~_approx_equal(out, FloatOf(refres.value))
                 THEN R("False", "FAIL: value mismatch", refCalled, FALSE)
                 ELSE IF ListNe(yt, yt0)
                 THEN R("False", "FAIL: y_true was mutated", refCalled, TRUE)
                 ELSE IF ListNe(yp, yp0)
                 THEN R("False", "FAIL: y_pred was mutated", refCalled, TRUE)
                 ELSE R("True", "PASS", refCalled, TRUE)

\* ------------------------------------------------------------------------
\* Test suite
\* ------------------------------------------------------------------------

\* String labels, numbered in string order.
Str(s) ==
    Lbl("str", CASE s = "A" -> 1 [] s = "B" -> 2 [] s = "C" -> 3
                 [] s = "a" -> 4 [] s = "b" -> 5 [] s = "c" -> 6
                 [] s = "cat" -> 7 [] s = "dog" -> 8 [] s = "mouse" -> 9
                 [] s = "unicorn" -> 10 [] s = "x" -> 11 [] s = "y" -> 12
                 [] s = "z" -> 13)

IntL(i) == Lbl("int", i)
Strs(s) == [i \in 1..Len(s) |-> Str(s[i])]
Ints(s) == [i \in 1..Len(s) |-> IntL(s[i])]

\* nan = float("nan"): one object, used at every NaN position of the case.
Nan == Lbl("nan", 1)

\* ("A",1), ("A",2), ("X",9), numbered in the order of str(x).
TupA1 == Lbl("tuple", 1)
TupA2 == Lbl("tuple", 2)
TupX9 == Lbl("tuple", 3)

\* frozenset({1,2}) and frozenset({2,1}) are equal sets.
Fs12 == Lbl("frozenset", 1)
Fs21 == Lbl("frozenset", 1)

Repeat(x, n) == [i \in 1..n |-> x]

Case(name, yt, yp, expect, expect_exception) ==
    [name |-> name, y_true |-> yt, y_pred |-> yp,
     expect |-> expect, expect_exception |-> expect_exception]

List(s) == Iterable("list", s)

\* The thirteen calls of run_case in main, in order.
Battery == <<
    Case("balanced_3class", List(Strs(<<"A","A","B","B","C","C">>)),
         List(Strs(<<"A","B","B","B","C","A">>)), NoneVal, "None"),
    Case("no_pred_for_class", List(Ints(<<0,0,1,1,1,2,2>>)),
         List(Ints(<<0,0,1,1,1,0,0>>)), NoneVal, "None"),
    Case("class_absent_in_truth", List(Ints(<<0,0,1,1,1,0,0>>)),
         List(Ints(<<0,0,1,1,1,2,2>>)), NoneVal, "None"),
    Case("gapped_labels", List(Ints(<<0,0,2,2,5,5,5>>)),
         List(Ints(<<0,2,2,5,5,5,0>>)), NoneVal, "None"),
    Case("string_labels_unseen_pred", List(Strs(<<"dog","dog","cat","cat","mouse">>)),
         List(Strs(<<"dog","cat","cat","mouse","unicorn">>)), NoneVal, "None"),
    Case("numpy_arrays", Iterable("ndarray", Ints(<<1,1,2,2,3,3>>)),
         Iterable("ndarray", Ints(<<1,2,2,3,3,1>>)), NoneVal, "None"),
    Case("perfect", List(Strs(<<"x","y","z","x","y","z">>)),
         List(Strs(<<"x","y","z","x","y","z">>)), FloatOf(RatOne), "None"),
    Case("all_wrong", List(Ints(<<0,1,2>>)), List(Ints(<<1,2,0>>)), NoneVal, "None"),
    Case("length_mismatch", List(Ints(<<0,1,2>>)), List(Ints(<<0,1>>)), NoneVal, "ValueError"),
    Case("nan_as_label", List(<<Nan, Str("a"), Str("a"), Nan, Str("b")>>),
         List(<<Nan, Str("a"), Nan, Str("x"), Str("b")>>), NoneVal, "None"),
    Case("extreme_imbalance", List(Repeat(IntL(0), 98) \o Repeat(IntL(1), 2)),
         List(Repeat(IntL(0), 99) \o Repeat(IntL(1), 1)), NoneVal, "None"),
    Case("composite_labels", List(<<TupA1, TupA2, Str("B"), Str("B"), Fs12>>),
         List(<<TupA1, Str("B"), Str("B"), Fs21, TupX9>>), NoneVal, "None"),
    Case("generator_inputs", Iterable("generator", Strs(<<"a","b","a","c">>)),
         Iterable("generator", Strs(<<"a","a","c","c">>)), NoneVal, "None")
>>

\* ------------------------------------------------------------------------
\* Start-up: loading and inspecting the candidate module
\* ------------------------------------------------------------------------

\* What the grader finds on start-up: whether numpy imports, whether
\* starter/solution.py exists, whether executing it raises, whether it
\* defines macro_f1, whether inspect/ast can read the function's source,
\* the docstring of the function (none, blank, or text) and whether its
\* body holds an import statement.
Environments ==
    [numpy : BOOLEAN, fileExists : BOOLEAN, loadRaises : BOOLEAN, hasMacroF1 : BOOLEAN,
     inspectable : BOOLEAN, docstring : {"none", "blank", "text"}, nestedImport : BOOLEAN]

\* The docstring test without .strip(): a blank docstring is accepted.
HasDocstringUnstripped(doc) == doc # "none"

\* ast.get_docstring(_fn_ast) is not None and len(....strip()) > 0
HasDocstring(doc) == doc = "text"

\* ------------------------------------------------------------------------
\* State
\* ------------------------------------------------------------------------

VARIABLES
    \* -- one call of _macro_f1_ref, statement by statement (RefSpec) --
    rpc,          \* position in _macro_f1_ref
    y_true,       \* its first argument
    y_pred,       \* its second argument
    ryt,          \* local yt
    ryp,          \* local yp
    classes,      \* local classes
    built,        \* whether line 108 has run
    f1s,          \* local f1s
    counts,       \* the (tp, fp, fn, prec, rec) of each class counted so far
    normalized,   \* number of labels passed to _normalize_label so far
    rresult,      \* what the call returned or raised
    \* -- one run of the grader (Spec) --
    pc,           \* position in the script
    env,          \* what the grader finds on start-up
    idx,          \* number of the next case of the battery
    all_ok,       \* main's all_ok
    last,         \* <<outcome>> of the call of run_case that has just ended
    calls,        \* calls of run_case so far
    candidateCalls, \* calls of the candidate's macro_f1 so far
    anyFalse,     \* whether some call of run_case has returned False
    ran,          \* names of the cases run so far, in order
    stdoutLast,   \* last line written to standard output
    exitCode      \* exit status of the process, -1 while it runs

refvars == <<rpc, y_true, y_pred, ryt, ryp, classes, built, f1s, counts, normalized, rresult>>

gvars == <<pc, env, idx, all_ok, last, calls, candidateCalls, anyFalse, ran,
           stdoutLast, exitCode>>

vars == <<refvars, gvars>>

\* The grader's variables while only _macro_f1_ref is followed.
GraderIdle ==
    /\ pc = "idle"
    /\ env = [numpy |-> TRUE, fileExists |-> TRUE, loadRaises |-> FALSE, hasMacroF1 |-> TRUE,
              inspectable |-> TRUE, docstring |-> "text", nestedImport |-> FALSE]
    /\ idx = 1
    /\ all_ok = TRUE
    /\ last = <<>>
    /\ calls = 0
    /\ candidateCalls = 0
    /\ anyFalse = FALSE
    /\ ran = <<>>
    /\ stdoutLast = ""
    /\ exitCode = -1

\* The variables of the stepwise _macro_f1_ref while the grader runs.
RefIdle ==
    /\ rpc = "idle"
    /\ y_true = Iterable("list", <<>>)
    /\ y_pred = Iterable("list", <<>>)
    /\ ryt = <<>>
    /\ ryp = <<>>
    /\ classes = <<>>
    /\ built = FALSE
    /\ f1s = <<>>
    /\ counts = <<>>
    /\ normalized = 0
    /\ rresult = [raised |-> "unset", value |-> RatZero]

\* ------------------------------------------------------------------------
\* _macro_f1_ref, statement by statement
\* ------------------------------------------------------------------------

\* The labels the reference engine is exercised on: two ints, the bool
\* equal to one of them, two distinct float NaN objects and a
\* numpy.float32 NaN.
RefLabels ==
    {Lbl("int", 0), Lbl("int", 1), Lbl("bool", 1), Lbl("nan", 1), Lbl("nan", 2), Lbl("nan32", 1)}

\* The arguments are lists or one-shot generators.
RefKinds == {"list", "generator"}

SeqsUpTo(S, n) == UNION {[1..k -> S] : k \in 0..n}

RefUnset == [raised |-> "unset", value |-> RatZero]

RefInit ==
    /\ rpc = "materialize"
    /\ y_true \in {Iterable(k, s) : k \in RefKinds, s \in SeqsUpTo(RefLabels, MaxLen)}
    /\ y_pred \in {Iterable(k, s) : k \in RefKinds, s \in SeqsUpTo(RefLabels, MaxLen)}
    /\ ryt = <<>>
    /\ ryp = <<>>
    /\ classes = <<>>
    /\ built = FALSE
    /\ f1s = <<>>
    /\ counts = <<>>
    /\ normalized = 0
    /\ rresult = RefUnset
    /\ GraderIdle

\* lines 99-100
RefMaterialize ==
    /\ rpc = "materialize"
    /\ ryt' = _materialize(y_true)
    /\ ryp' = _materialize(y_pred)
    /\ rpc' = "check"
    /\ UNCHANGED <<gvars, y_true, y_pred, classes, built, f1s, counts, normalized, rresult>>

\* lines 102-103
RefCheckLength ==
    /\ rpc = "check"
    /\ IF LengthMismatch(ryt, ryp)
       THEN /\ rpc' = "raised"
            /\ rresult' = [raised |-> "ValueError", value |-> RatZero]
       ELSE /\ rpc' = "normalize"
            /\ UNCHANGED rresult
    /\ UNCHANGED <<gvars, y_true, y_pred, ryt, ryp, classes, built, f1s, counts, normalized>>

\* lines 105-106
RefNormalize ==
    /\ rpc = "normalize"
    /\ ryt' = NormalizeAll(ryt)
    /\ ryp' = NormalizeAll(ryp)
    /\ normalized' = normalized + Len(ryt) + Len(ryp)
    /\ rpc' = "classes"
    /\ UNCHANGED <<gvars, y_true, y_pred, classes, built, f1s, counts, rresult>>

\* line 108
RefBuildClasses ==
    /\ rpc = "classes"
    /\ classes' = Classes(ryt, ryp)
    /\ built' = TRUE
    /\ rpc' = "loop"
    /\ UNCHANGED <<gvars, y_true, y_pred, ryt, ryp, f1s, counts, normalized, rresult>>

\* lines 111-119, one iteration
RefClassStep ==
    /\ rpc = "loop"
    /\ Len(f1s) < Len(classes)
    /\ LET c == classes[Len(f1s) + 1]
           tp == Tp(ryt, ryp, c)
           fp == Fp(ryt, ryp, c)
           fn == Fn(ryt, ryp, c)
           prec == Precision(tp, fp)
           rec == Recall(tp, fn)
       IN  /\ counts' = Append(counts, [c |-> c, tp |-> tp, fp |-> fp, fn |-> fn,
                                        prec |-> prec, rec |-> rec])
           /\ f1s' = Append(f1s, F1Of(prec, rec))
    /\ UNCHANGED <<gvars, rpc, y_true, y_pred, ryt, ryp, classes, built, normalized, rresult>>

\* line 121
RefReturn ==
    /\ rpc = "loop"
    /\ Len(f1s) = Len(classes)
    /\ rresult' = [raised |-> "none", value |-> MeanF1(f1s)]
    /\ rpc' = "done"
    /\ UNCHANGED <<gvars, y_true, y_pred, ryt, ryp, classes, built, f1s, counts, normalized>>

RefNext ==
    \/ RefMaterialize
    \/ RefCheckLength
    \/ RefNormalize
    \/ RefBuildClasses
    \/ RefClassStep
    \/ RefReturn

RefSpec == RefInit /\ [][RefNext]_vars

\* ------------------------------------------------------------------------
\* The grader script
\* ------------------------------------------------------------------------

NumCases == Len(Battery)

Init ==
    /\ pc = "import_numpy"
    /\ env \in Environments
    /\ idx = 1
    /\ all_ok = TRUE
    /\ last = <<>>
    /\ calls = 0
    /\ candidateCalls = 0
    /\ anyFalse = FALSE
    /\ ran = <<>>
    /\ stdoutLast = ""
    /\ exitCode = -1
    /\ RefIdle

\* The line run_case prints before it returns, up to the name of the case.
CaseLine(verdict) == IF verdict = "True" THEN "PASS:" ELSE "FAIL:"

\* print(line); sys.exit(code)
Exit(line, code) ==
    /\ pc' = "exited"
    /\ stdoutLast' = line
    /\ exitCode' = code

Proceed(to) ==
    /\ pc' = to
    /\ UNCHANGED <<stdoutLast, exitCode>>

\* lines 23-27
ImportNumpy ==
    /\ pc = "import_numpy"
    /\ IF ~env.numpy
       THEN Exit("FAIL: numpy not available in environment", 1)
       ELSE Proceed("check_file")
    /\ UNCHANGED <<env, idx, all_ok, last, calls, candidateCalls, anyFalse, ran, refvars>>

\* lines 32-34
CheckSolutionFile ==
    /\ pc = "check_file"
    /\ IF ~env.fileExists
       THEN Exit("FAIL: starter/solution.py not found", 1)
       ELSE Proceed("load")
    /\ UNCHANGED <<env, idx, all_ok, last, calls, candidateCalls, anyFalse, ran, refvars>>

\* lines 36-42
LoadModule ==
    /\ pc = "load"
    /\ IF env.loadRaises
       THEN Exit("FAIL: importing solution raised an exception", 1)
       ELSE Proceed("check_attr")
    /\ UNCHANGED <<env, idx, all_ok, last, calls, candidateCalls, anyFalse, ran, refvars>>

\* lines 44-46
CheckAttr ==
    /\ pc = "check_attr"
    /\ IF ~env.hasMacroF1
       THEN Exit("FAIL: solution.py must define a function named macro_f1", 1)
       ELSE Proceed("style")
    /\ UNCHANGED <<env, idx, all_ok, last, calls, candidateCalls, anyFalse, ran, refvars>>

\* The style check with the test of lines 62-67 placed after the try
\* statement, where it would run on every function that has a docstring.
StyleCheckWithImportTest ==
    /\ pc = "style"
    /\ IF ~env.inspectable
       THEN Exit("FAIL: unable to inspect macro_f1 source for docstring check", 1)
       ELSE IF ~HasDocstring(env.docstring)
       THEN Exit("FAIL: macro_f1 must start with a docstring", 1)
       ELSE IF env.nestedImport
       THEN Exit("FAIL: imports are not allowed inside macro_f1; place imports at module top.", 1)
       ELSE Proceed("main")
    /\ UNCHANGED <<env, idx, all_ok, last, calls, candidateCalls, anyFalse, ran, refvars>>

\* lines 48-70: the try block of lines 50-58 and its handler, lines 59-61.
\* Lines 62-67 follow sys.exit(1) inside the handler and never run; the
\* handler of lines 68-70 belongs to the same try and is never selected.
StyleCheck ==
    /\ pc = "style"
    /\ IF ~env.inspectable
       THEN Exit("FAIL: unable to inspect macro_f1 source for docstring check", 1)
       ELSE IF ~HasDocstring(env.docstring)
       THEN Exit("FAIL: macro_f1 must start with a docstring", 1)
       ELSE Proceed("main")
    /\ UNCHANGED <<env, idx, all_ok, last, calls, candidateCalls, anyFalse, ran, refvars>>

\* lines 229-230 and 181-182
MainStart ==
    /\ pc = "main"
    /\ all_ok' = TRUE
    /\ pc' = "battery"
    /\ UNCHANGED <<env, idx, last, calls, candidateCalls, anyFalse, ran, stdoutLast,
                   exitCode, refvars>>

\* One call run_case(...) of main, lines 134-177, with the candidate
\* behaving in any of the ways of Behaviours.
CallRunCase ==
    /\ pc = "battery"
    /\ idx <= NumCases
    /\ LET c == Battery[idx]
       IN  \E beh \in Behaviours(_materialize(c.y_true), _materialize(c.y_pred)) :
             LET r == run_case(c, beh)
             IN  /\ last' = <<r>>
                 /\ stdoutLast' = IF r.verdict = "raised" THEN stdoutLast ELSE CaseLine(r.verdict)
                 /\ candidateCalls' = candidateCalls + r.candidateCalls
    /\ calls' = calls + 1
    /\ ran' = Append(ran, Battery[idx].name)
    /\ pc' = "returned"
    /\ UNCHANGED <<env, idx, all_ok, anyFalse, exitCode, refvars>>

\* all_ok &= <the value run_case returned>; an exception that left
\* run_case is not caught in main: traceback, exit status 1.
Accumulate ==
    /\ pc = "returned"
    /\ IF last[1].verdict = "raised"
       THEN /\ pc' = "exited"
            /\ exitCode' = 1
            /\ UNCHANGED <<idx, all_ok, last, anyFalse>>
       ELSE /\ all_ok' = (all_ok /\ last[1].verdict = "True")
            /\ anyFalse' = (anyFalse \/ last[1].verdict = "False")
            /\ idx' = idx + 1
            /\ last' = <<>>
            /\ pc' = "battery"
            /\ UNCHANGED exitCode
    /\ UNCHANGED <<env, calls, candidateCalls, ran, stdoutLast, refvars>>

\* lines 222-227
Finish ==
    /\ pc = "battery"
    /\ idx > NumCases
    /\ IF all_ok THEN Exit("GRADE:PASS", 0) ELSE Exit("GRADE:FAIL", 1)
    /\ UNCHANGED <<env, idx, all_ok, last, calls, candidateCalls, anyFalse, ran, refvars>>

Next ==
    \/ ImportNumpy
    \/ CheckSolutionFile
    \/ LoadModule
    \/ CheckAttr
    \/ StyleCheck
    \/ MainStart
    \/ CallRunCase
    \/ Accumulate
    \/ Finish

Spec == Init /\ [][Next]_vars

\* ------------------------------------------------------------------------
\* Properties
\* ------------------------------------------------------------------------

\* The stepwise _macro_f1_ref ends as the function _macro_f1_ref says.
StepwiseAgrees ==
    rpc \in {"done", "raised"} => rresult = _macro_f1_ref(y_true, y_pred)

\* The call of run_case that has just ended, if any.
Ended == last # <<>>
L == last[1]

\* The macro-F1 of the lists as they were before the candidate was called.
PreCallRef(o) == _macro_f1_ref(Iterable("list", o.yt0), Iterable("list", o.yp0))

\* The candidate left a list different from its snapshot (an element
\* altered, added or removed).
ChangedInPlace(o) == ~ListEq(o.yt, o.yt0) \/ ~ListEq(o.yp, o.yp0)

MutationMessages == {"FAIL: y_true was mutated", "FAIL: y_pred was mutated"}

\* C1: in a case that expects no exception, when the candidate returns
\* exactly the macro-F1 of the inputs as they were before the call and has
\* changed one of the two lists in place, run_case returns False with a
\* mutation failure (not PASS, not a value mismatch).
C1_MutationFlagged ==
    (/\ Ended
     /\ L.expect_exception = "None"
     /\ L.exc = "none"
     /\ PreCallRef(L).raised = "none"
     /\ L.out = FloatOf(PreCallRef(L).value)
     /\ ChangedInPlace(L))
    => (L.verdict = "False" /\ L.msg \in MutationMessages)

\* The rationals met in run_case have denominators small enough for two
\* different ones to be further apart than the tolerance and the offsets.
SmallDenominators ==
    Ended => /\ L.out.d <= 10000
             /\ PreCallRef(L).value.d <= 10000
             /\ _macro_f1_ref(Iterable("list", L.yt), Iterable("list", L.yp)).value.d <= 10000

\* C2: whatever the candidate does, run_case ends by returning True or
\* False; no exception leaves run_case.
C2_NoExceptionEscapes ==
    Ended => L.verdict \in {"True", "False"}

\* The value is an int or a float.
C3_Numeric(v) == v.kind \in {"float", "int", "inf", "nan", "hugeint"}

\* The value lies in [0 - 1e-12, 1 + 1e-12].
C3_InRange(v) ==
    /\ v.kind \in {"float", "int"}
    /\ \/ 0 < v.n /\ v.n < v.d
       \/ v.n = 0 /\ v.e >= -1
       \/ v.n = v.d /\ v.e <= 1

\* The value is within 1e-9 of the finite value r.
C3_Close(v, r) ==
    /\ v.kind \in {"float", "int"}
    /\ v.n * r.d = r.n * v.d
    /\ -1000 <= v.e /\ v.e <= 1000

\* The literal expected value when the case has one, otherwise the
\* reference result on the lists as they were before the call.
C3_Expected(o) ==
    IF o.expect.kind # "NoneType"
    THEN [raised |-> "none", value |-> [n |-> o.expect.n, d |-> o.expect.d]]
    ELSE PreCallRef(o)

C3_Conditions(o) ==
    /\ o.exc = "none"
    /\ C3_Numeric(o.out)
    /\ C3_InRange(o.out)
    /\ C3_Expected(o).raised = "none"
    /\ C3_Close(o.out, C3_Expected(o).value)
    /\ ListEq(o.yt, o.yt0)
    /\ ListEq(o.yp, o.yp0)

C4_Matches(exc, expected) ==
    expected = "ValueError" /\ exc \in {"ValueError", "UnicodeError"}

Occurs(x, s) == \E i \in 1..Len(s) : s[i] = x

\* C5: when True and 1 both occur in the sequences, the class set holds
\* both as separate members, and truth=[True], predicted=[1] gives 0.0.
C5_BoolIntDistinct ==
    rpc = "done"
    => /\ (/\ Occurs(Lbl("bool", 1), y_true.items \o y_pred.items)
           /\ Occurs(Lbl("int", 1), y_true.items \o y_pred.items))
          => (Occurs(Lbl("bool", 1), classes) /\ Occurs(Lbl("int", 1), classes))
       /\ (y_true.items = <<Lbl("bool", 1)>> /\ y_pred.items = <<Lbl("int", 1)>>)
          => rresult.value = RatZero

\* Start-up succeeded: main was entered.
SetupSucceeded ==
    /\ env.numpy
    /\ env.fileExists
    /\ ~env.loadRaises
    /\ env.hasMacroF1
    /\ env.inspectable
    /\ env.docstring = "text"

\* Every case of the battery returned True from run_case.
EveryCaseReturnedTrue == calls = NumCases /\ ~anyFalse /\ last = <<>>

\* C6: when start-up succeeds, main ends with GRADE:PASS and exit code 0
\* exactly when every case returned True; when some case returned False it
\* ends with GRADE:FAIL and exit code 1.
C6_FinalStatus ==
    (pc = "exited" /\ SetupSucceeded)
    => /\ (stdoutLast = "GRADE:PASS" /\ exitCode = 0) <=> EveryCaseReturnedTrue
       /\ anyFalse => (stdoutLast = "GRADE:FAIL" /\ exitCode = 1)

\* One of the fatal start-up failures holds.
C7_SetupFailure ==
    \/ ~env.fileExists
    \/ env.loadRaises
    \/ ~env.hasMacroF1
    \/ env.docstring # "text"
    \/ ~env.inspectable

SetupFailMessages ==
    {"FAIL: numpy not available in environment",
     "FAIL: starter/solution.py not found",
     "FAIL: importing solution raised an exception",
     "FAIL: solution.py must define a function named macro_f1",
     "FAIL: unable to inspect macro_f1 source for docstring check",
     "FAIL: macro_f1 must start with a docstring"}

LengthsDiffer == Len(_materialize(y_true)) # Len(_materialize(y_pred))

\* C8: on inputs of different lengths _macro_f1_ref raises ValueError
\* before it normalises a label, builds the class set or counts, and never
\* returns a number.
C8_LengthMismatchRaisesFirst ==
    (rpc # "idle" /\ LengthsDiffer)
    => /\ rpc \in {"materialize", "check", "raised"}
       /\ normalized = 0
       /\ ~built
       /\ counts = <<>>
       /\ f1s = <<>>
       /\ rresult.raised \in {"unset", "ValueError"}
       /\ rpc = "raised" <=> rresult.raised = "ValueError"

C8_Witness ==
    /\ rpc = "raised"
    /\ Len(y_true.items) = 2
    /\ Len(y_pred.items) = 1
    /\ rresult.raised = "ValueError"

\* r is a number (no division by zero produced it) in [0, 1].
InUnitInterval(r) == r.d > 0 /\ 0 <= r.n /\ r.n <= r.d

\* C9: on inputs of equal length every per-class precision, recall and F1
\* is a number in [0, 1] (no division by zero), and so is the result.
C9_ResultInUnitInterval ==
    (rpc # "idle" /\ ~LengthsDiffer)
    => /\ \A k \in 1..Len(counts) :
            InUnitInterval(counts[k].prec) /\ InUnitInterval(counts[k].rec)
       /\ \A k \in 1..Len(f1s) : InUnitInterval(f1s[k])
       /\ rpc \in {"done", "raised"} => (rresult.raised = "none" /\ InUnitInterval(rresult.value))

\* A finished call with a NaN label, a class absent from the predictions
\* and a class absent from the truth.
C9_Witness ==
    /\ rpc = "done"
    /\ \E i \in 1..Len(y_true.items) : y_true.items[i].t = "nan"
    /\ \E k \in 1..Len(counts) : counts[k].tp + counts[k].fp = 0
    /\ \E k \in 1..Len(counts) : counts[k].tp + counts[k].fn = 0
    /\ InUnitInterval(rresult.value)

\* Equal labels: the same label, or two NaN.
SameLabel(x, y) == x = y \/ (IsNanValued(x) /\ IsNanValued(y))

SamePositions(a, b) ==
    /\ Len(a) = Len(b)
    /\ \A i \in 1..Len(a) : SameLabel(a[i], b[i])

\* C10: when truth and predicted are non-empty and hold equal labels at
\* every position (NaN included), every class has fp = 0, fn = 0, tp >= 1
\* and F1 = 1, and the result is exactly 1.
C10_IdenticalGivesOne ==
    (/\ rpc # "idle"
     /\ Len(y_true.items) > 0
     /\ SamePositions(y_true.items, y_pred.items))
    => /\ \A k \in 1..Len(counts) :
            counts[k].fp = 0 /\ counts[k].fn = 0 /\ counts[k].tp >= 1
       /\ \A k \in 1..Len(f1s) : f1s[k] = RatOne
       /\ rpc \in {"done", "raised"} => (rresult.raised = "none" /\ rresult.value = RatOne)

\* A finished call on s, s where s holds a NaN and another label.
C10_Witness ==
    /\ rpc = "done"
    /\ y_true.items = y_pred.items
    /\ Len(y_true.items) = 2
    /\ y_true.items[1].t = "nan"
    /\ y_true.items[2].t # "nan"
    /\ Len(counts) = 2
    /\ rresult.value = RatOne


\* The labels of truth followed by those of predicted, as given and as
\* _macro_f1_ref holds them after its two normalising statements.
GivenLabels == _materialize(y_true) \o _materialize(y_pred)
HeldLabels == ryt \o ryp

RefNormalized == rpc \in {"classes", "loop", "done"}

\* The classes that hold an occurrence of NaN.
NanClasses ==
    {k \in 1..Len(classes) :
        \E i \in 1..Len(GivenLabels) :
            IsNanValued(GivenLabels[i]) /\ PyIs(HeldLabels[i], classes[k])}

\* C11: once _macro_f1_ref has normalised its labels, normalising them
\* again changes nothing, the normalised forms of any two NaN-valued
\* floating-point labels compare equal, every label that is not NaN is
\* held unchanged, and all occurrences of NaN fall into one class.
C11_NanCollapses ==
    RefNormalized
    => /\ NormalizeAll(HeldLabels) = HeldLabels
       /\ \A i, j \in 1..Len(GivenLabels) :
            (IsNanValued(GivenLabels[i]) /\ IsNanValued(GivenLabels[j]))
            => PyEq(HeldLabels[i], HeldLabels[j])
       /\ \A i \in 1..Len(GivenLabels) :
            ~IsNanValued(GivenLabels[i]) => HeldLabels[i] = GivenLabels[i]
       /\ built => Cardinality(NanClasses) <= 1

\* The names of the cases in the order of main.
BatteryNames == [i \in 1..NumCases |-> Battery[i].name]

\* C12: the calls of run_case made so far are one call per case, in the
\* order of the battery; a run whose start-up succeeded ends only after all
\* 13 cases were run, whatever the earlier cases returned; and the final
\* status line is printed only after the last case.
C12_EveryCaseRuns ==
    /\ calls <= NumCases
    /\ ran = SubSeq(BatteryNames, 1, calls)
    /\ (pc = "exited" /\ SetupSucceeded) => calls = NumCases
    /\ stdoutLast \in {"GRADE:PASS", "GRADE:FAIL"} => (pc = "exited" /\ calls = NumCases)

\* C13: the message of the nested-import test is never printed, and a
\* module that loads, exposes macro_f1 and has a docstring passes start-up
\* and has the battery run on it, with or without an import statement in
\* the body of the function: its run does not end before run_case was
\* called, nor with a start-up message.
C13_ImportTestNeverFails ==
    /\ stdoutLast # "FAIL: imports are not allowed inside macro_f1; place imports at module top."
    /\ SetupSucceeded
       => (pc = "exited" => (calls >= 1 /\ stdoutLast \notin SetupFailMessages))

\* A function with a docstring and an import statement in its body went
\* through start-up and all 13 cases, and the run ended with GRADE:PASS.
C13_Witness ==
    /\ SetupSucceeded
    /\ env.nestedImport
    /\ pc = "exited"
    /\ calls = NumCases
    /\ stdoutLast = "GRADE:PASS"
    /\ exitCode = 0

=============================================================================
